---- MODULE Spec2Model ----
(***************************************************************************)
(* richat plugin-agave: the Geyser plugin adapter (plugin.rs, config.rs),   *)
(* its lifecycle (on_load / on_unload), its producer callbacks, and the     *)
(* Retention Channel (crate::channel::Sender) the callbacks push into.      *)
(* The channel's source is not part of plugin.rs/config.rs; it is modelled  *)
(* from its written design (spec.md 3, 4.2, 4.3).                           *)
(***************************************************************************)
EXTENDS Integers, Sequences, FiniteSets, TLC

VARIABLES
    inner,      \* Plugin.inner: "None" | "Some"                 (plugin.rs:157)
    filters,    \* PluginInner.filters                           (plugin.rs:62)
    encoder,    \* PluginInner.encoder                           (plugin.rs:59)
    tasks,      \* PluginInner.tasks: names still to be joined   (plugin.rs:61)
    shutdown,   \* PluginInner.shutdown: token cancelled?        (plugin.rs:60)
    runtime,    \* PluginInner.runtime: "none" | "up"            (plugin.rs:57)
    taskState,  \* the runtime's service tasks
    chan,       \* PluginInner.messages: the Retention Channel   (plugin.rs:58)
    limits,     \* config.channel the channel was built from     (plugin.rs:82)
    pc,         \* position of the host thread inside on_load or on_unload
    result,     \* what the last host call returned
    cons,       \* Subscriber Cursors held by the transports
    pushed,     \* history: sizes of the messages pushed, by sequence number
    evictLog,   \* history: sequence numbers in the order they were evicted
    budget,     \* model bound: pushes explored per channel
    call,       \* history, where it is kept: the last producer callback
    joinErrs,   \* the tasks whose JoinError on_unload has logged   (plugin.rs:190)
    lock,       \* the channel's exclusive section: the thread inside it, or "free"
    prod,       \* host threads inside a producer callback: position and locals
    loading     \* the locals of the PluginInner::new in progress  (plugin.rs:66-142)

vars == <<inner, filters, encoder, tasks, shutdown, runtime, taskState, chan,
          limits, pc, result, cons, pushed, evictLog, budget, call, joinErrs, lock,
          prod, loading>>

pluginVars == <<inner, filters, encoder, tasks, shutdown, runtime, taskState, limits, pc,
               budget, joinErrs, lock, prod, loading>>

(***************************************************************************)
(* Bounds of the model.                                                    *)
(***************************************************************************)
MaxPushes == 5
MaxPushesSized == 4
LifecyclePushes == 2
CallbackPushes == 3
ProducerPushes == 4

(***************************************************************************)
(* Configuration (config.rs).                                              *)
(***************************************************************************)
\* Option<usize> is a set with at most one element: {} is None, {m} is Some(m).
ConfigFiltersDefault ==
    [enable_account_update |-> TRUE, enable_transaction_update |-> TRUE,
     max_account_data_size |-> {}]

ConfigChannelDefaultEncoder == "Raw"

\* The configuration files the host may hand to on_load. "unreadable" stands for a
\* file Config::load_from_file fails on.
Configs ==
    { [channel |-> [encoder |-> "Prost", max_messages |-> 4, max_bytes |-> 12],
       filters |-> [enable_account_update |-> FALSE, enable_transaction_update |-> FALSE,
                    max_account_data_size |-> {1}],
       grpc |-> TRUE, quic |-> TRUE, metrics |-> FALSE],
      [channel |-> [encoder |-> "Raw", max_messages |-> 3, max_bytes |-> 2],
       filters |-> ConfigFiltersDefault,
       grpc |-> TRUE, quic |-> TRUE, metrics |-> TRUE] }

ChannelLimits == [max_messages |-> 0, max_bytes |-> 0]

(***************************************************************************)
(* Service tasks (plugin.rs:90-138), in spawn order.                       *)
(***************************************************************************)
GRPC == "gRPC Server"
QUIC == "Quic Server"
PROM == "Prometheus Server"
TaskNames == {GRPC, QUIC, PROM}
SpawnOrder == <<GRPC, QUIC, PROM>>

\* The transports that hold a clone of the Sender and serve subscribers
\* (messages.clone(), plugin.rs:99 and plugin.rs:119).
Consumers == {GRPC, QUIC}

IsConfigured(config, name) ==
    CASE name = GRPC -> config.grpc
      [] name = QUIC -> config.quic
      [] name = PROM -> config.metrics

\* The block_on body of PluginInner::new: each configured service is spawned in
\* order and pushed to `tasks`; the first spawn that fails returns through `?`.
\* failAt names the service whose spawn fails ("none": no spawn fails).
SpawnServers(config, failAt) ==
    LET idx(n) == CHOOSE i \in 1..3 : SpawnOrder[i] = n
        fails == failAt \in TaskNames /\ IsConfigured(config, failAt)
        upto == IF fails THEN idx(failAt) - 1 ELSE 3
    IN [ok |-> ~fails,
        tasks |-> SelectSeq(SubSeq(SpawnOrder, 1, upto),
                            LAMBDA n : IsConfigured(config, n))]

\* Dropping a tokio Runtime shuts it down: the tasks spawned on it are dropped.
RuntimeDrop(spawned) == {}

(***************************************************************************)
(* The Retention Channel, from its design (spec.md 3 and 4.2).             *)
(***************************************************************************)
NoMessage == [seq |-> -1, size |-> 0]

ChannelNew(cc) ==
    [buf |-> <<>>, bytes |-> 0, count |-> 0, oldest |-> 0, next_seq |-> 0,
     closed |-> FALSE, max_messages |-> cc.max_messages, max_bytes |-> cc.max_bytes]

NoChannel == [ChannelNew(ChannelLimits) EXCEPT !.closed = TRUE]

OverCapacity(ch) == ch.bytes > ch.max_bytes \/ ch.count > ch.max_messages

\* Eviction taking the newest retained message instead of the oldest.
EvictOldest_TakesNewest(ch) ==
    [ch EXCEPT !.buf = SubSeq(@, 1, Len(@) - 1),
               !.bytes = @ - ch.buf[Len(ch.buf)].size,
               !.count = @ - 1]

\* Evicts the oldest retained message.
EvictOldest(ch) ==
    [ch EXCEPT !.buf = Tail(@),
               !.bytes = @ - Head(ch.buf).size,
               !.count = @ - 1,
               !.oldest = Head(ch.buf).seq + 1]

RECURSIVE Evict(_)
Evict(ch) ==
    IF ch.count > 0 /\ OverCapacity(ch) THEN Evict(EvictOldest(ch)) ELSE ch

\* push, first half: assign the next sequence number and append.
ChannelAppend(ch, size) ==
    [ch EXCEPT !.buf = Append(@, [seq |-> ch.next_seq, size |-> size]),
               !.bytes = @ + size,
               !.count = @ + 1,
               !.next_seq = @ + 1]

\* push: append, then evict until both limits hold.
ChannelPush(ch, size) == Evict(ChannelAppend(ch, size))

\* The sequence numbers the eviction loop removes, in the order it removes them.
RECURSIVE EvictTrace(_)
EvictTrace(ch) ==
    IF ch.count > 0 /\ OverCapacity(ch)
    THEN LET after == EvictOldest(ch)
             kept == {after.buf[i].seq : i \in 1..Len(after.buf)}
             gone == SelectSeq(ch.buf, LAMBDA m : m.seq \notin kept)
         IN [i \in 1..Len(gone) |-> gone[i].seq] \o EvictTrace(after)
    ELSE <<>>

ChannelClose(ch) == [ch EXCEPT !.closed = TRUE]

\* next delivering the oldest retained message whatever the cursor.
CursorNext_DeliversOldest(ch, cur) ==
    IF cur < ch.oldest
    THEN [t |-> "Lagged", n |-> ch.oldest - cur, at |-> cur, msg |-> NoMessage,
          cur |-> ch.oldest]
    ELSE IF cur < ch.next_seq
    THEN [t |-> "Delivered", n |-> 0, at |-> cur, msg |-> ch.buf[1], cur |-> cur + 1]
    ELSE IF ch.closed
    THEN [t |-> "EndOfStream", n |-> 0, at |-> cur, msg |-> NoMessage, cur |-> cur]
    ELSE [t |-> "Pending", n |-> 0, at |-> cur, msg |-> NoMessage, cur |-> cur]

\* next reporting every unread message as skipped, not only the evicted ones.
CursorNext_LagCountsUnread(ch, cur) ==
    IF cur < ch.oldest
    THEN [t |-> "Lagged", n |-> ch.next_seq - cur, at |-> cur, msg |-> NoMessage,
          cur |-> ch.oldest]
    ELSE IF cur < ch.next_seq
    THEN [t |-> "Delivered", n |-> 0, at |-> cur, msg |-> ch.buf[cur - ch.oldest + 1],
          cur |-> cur + 1]
    ELSE IF ch.closed
    THEN [t |-> "EndOfStream", n |-> 0, at |-> cur, msg |-> NoMessage, cur |-> cur]
    ELSE [t |-> "Pending", n |-> 0, at |-> cur, msg |-> NoMessage, cur |-> cur]

\* next(cursor): what the call resolves to (`at` is the cursor it was made at),
\* and the cursor after it.
CursorNext(ch, cur) ==
    IF cur < ch.oldest
    THEN [t |-> "Lagged", n |-> ch.oldest - cur, at |-> cur, msg |-> NoMessage,
          cur |-> ch.oldest]
    ELSE IF cur < ch.next_seq
    THEN [t |-> "Delivered", n |-> 0, at |-> cur, msg |-> ch.buf[cur - ch.oldest + 1],
          cur |-> cur + 1]
    ELSE IF ch.closed
    THEN [t |-> "EndOfStream", n |-> 0, at |-> cur, msg |-> NoMessage, cur |-> cur]
    ELSE [t |-> "Pending", n |-> 0, at |-> cur, msg |-> NoMessage, cur |-> cur]

\* Size of the encoded payload: an account message grows with its data, the other
\* categories are one unit.
EncodedLen(kind, data_len) == IF kind = "Account" THEN data_len ELSE 1

(***************************************************************************)
(* Subscriber Cursors.                                                     *)
(***************************************************************************)
NoOutcome == [t |-> "None", n |-> 0, at |-> 0, msg |-> NoMessage]

\* status: "none" (no subscription), "ready" (running, between calls of next) or
\* "waiting" (suspended in next). cur is the next expected sequence number, first
\* the one the cursor was created at; last is what the latest call of next resolved
\* to, and log the history of its results since (and with) its latest Lagged one,
\* or since the subscription.
NoCursor ==
    [status |-> "none", cur |-> 0, first |-> 0, last |-> NoOutcome, log |-> <<>>]

\* push and close wake every consumer suspended in next.
WakeAll(cs) ==
    [c \in Consumers |->
        IF cs[c].status = "waiting" THEN [cs[c] EXCEPT !.status = "ready"] ELSE cs[c]]

\* What the host saw of its last call: res is "None" before any call, "Ok" or "Err"
\* for a PluginResult, "Unit" for on_unload's return, "Panic" when the call
\* panicked; err says what the error reports (the fault on_load met).
NoCall == [res |-> "None", err |-> "none"]
Returned(r) == [res |-> r, err |-> "none"]
\* load_from_file's ConfigFileOpenError / ConfigFileReadError, or
\* GeyserPluginError::Custom carrying the runtime's or the service's error.
LoadError(fault) == [res |-> "Err", err |-> fault]

\* What the last producer callback did: the category of its event, whether it
\* was a startup account update, and whether it pushed a message. The history is
\* kept by the specifications that start with NoCallback and not by those that
\* start with NotRecorded.
NoCallback == [kind |-> "none", startup |-> FALSE, pushed |-> FALSE]
NotRecorded == [kind |-> "off", startup |-> FALSE, pushed |-> FALSE]
Record(c) == IF call = NotRecorded THEN call ELSE c

\* The host threads that may be inside a producer callback at the same time
\* (the callbacks take &self), and a thread that is in none.
Threads == {"t1", "t2"}
IdleProducer == [pc |-> "idle", kind |-> "none", size |-> 0, seq |-> -1]
NoProducers == [t \in Threads |-> IdleProducer]

\* The locals of a PluginInner::new in progress on the host thread: the
\* configuration it was given, the index in SpawnOrder of the service whose
\* spawn is awaited, the services pushed to `tasks` so far
\* (they run on the new runtime), the new Sender, and the cursors those services
\* have taken from it. NoLoading: no call in progress.
NoFile ==
    [channel |-> [encoder |-> ConfigChannelDefaultEncoder, max_messages |-> 0,
                  max_bytes |-> 0],
     filters |-> ConfigFiltersDefault,
     grpc |-> FALSE, quic |-> FALSE, metrics |-> FALSE]

NoLoading ==
    [file |-> NoFile, at |-> 0, tasks |-> <<>>,
     messages |-> NoChannel, cons |-> [c \in Consumers |-> NoCursor]]

Spawned(l) == {l.tasks[i] : i \in 1..Len(l.tasks)}

\* The `if let Some(config)` tests of the block_on body: the first service at or
\* after position i of SpawnOrder that is configured, Len(SpawnOrder) + 1 if none.
RECURSIVE NextService(_, _)
NextService(config, i) ==
    IF i > Len(SpawnOrder) THEN i
    ELSE IF IsConfigured(config, SpawnOrder[i]) THEN i
    ELSE NextService(config, i + 1)

(***************************************************************************)
(* Initial state: Plugin::default() (plugin.rs:155-158, 356).              *)
(***************************************************************************)
Init ==
    /\ inner = "None"
    /\ filters = ConfigFiltersDefault
    /\ encoder = ConfigChannelDefaultEncoder
    /\ tasks = <<>>
    /\ shutdown = FALSE
    /\ runtime = "none"
    /\ taskState = [t \in TaskNames |-> "none"]
    /\ chan = NoChannel
    /\ limits = ChannelLimits
    /\ pc = "idle"
    /\ result = NoCall
    /\ cons = [c \in Consumers |-> NoCursor]
    /\ pushed = <<>>
    /\ evictLog = <<>>
    /\ budget = LifecyclePushes
    /\ call = NotRecorded
    /\ joinErrs = {}
    /\ lock = "free"
    /\ prod = NoProducers
    /\ loading = NoLoading

\* unreachable!(..) on an older version and expect("initialized") on a plugin
\* with no inner (plugin.rs:207-212, 216 and the like): the panic unwinds out of
\* the callback before anything is pushed. Nothing of the plugin changes: the
\* inner, its runtime, tasks and channel are as they were, and later calls find
\* them so. What the host does with the panic is the host's.
Panic ==
    /\ result' = Returned("Panic")
    /\ call' = Record(NoCallback)
    /\ UNCHANGED <<pluginVars, chan, cons, pushed, evictLog>>

(***************************************************************************)
(* on_load (plugin.rs:165-180) and PluginInner::new (plugin.rs:66-153).    *)
(***************************************************************************)
\* PluginInner::new handing Sender::new the two limits transposed.
PluginInner_new_LimitsSwapped(config, fault) ==
    LET sp == SpawnServers(config, fault)
        spawned == {sp.tasks[i] : i \in 1..Len(sp.tasks)}
    IN IF fault = "runtime" \/ ~sp.ok
       THEN [ok |-> FALSE, tasks |-> <<>>, running |-> {}, messages |-> NoChannel]
       ELSE [ok |-> TRUE, tasks |-> sp.tasks, running |-> spawned,
             messages |-> ChannelNew([max_messages |-> config.channel.max_bytes,
                                      max_bytes |-> config.channel.max_messages])]

\* PluginInner::new keeping the runtime of a failed attempt alive: the services it
\* had already spawned go on running.
PluginInner_new_LeaksTasks(config, fault) ==
    LET sp == SpawnServers(config, fault)
        spawned == {sp.tasks[i] : i \in 1..Len(sp.tasks)}
    IN IF fault = "runtime"
       THEN [ok |-> FALSE, tasks |-> <<>>, running |-> {}, messages |-> NoChannel]
       ELSE IF ~sp.ok
       THEN [ok |-> FALSE, tasks |-> <<>>, running |-> spawned, messages |-> NoChannel]
       ELSE [ok |-> TRUE, tasks |-> sp.tasks, running |-> spawned,
             messages |-> ChannelNew(config.channel)]

\* PluginInner::new: build the runtime, create the channel, spawn the servers.
\* `running` are the tasks of this attempt still running when new returns: on an
\* error the local `runtime` is dropped on the way out.
\* `fault` is what goes wrong in the environment: "runtime" (build_runtime fails),
\* the name of a service (its spawn fails), or nothing.
PluginInner_new(config, fault) ==
    LET sp == SpawnServers(config, fault)
        spawned == {sp.tasks[i] : i \in 1..Len(sp.tasks)}
    IN IF fault = "runtime"
       THEN [ok |-> FALSE, tasks |-> <<>>, running |-> {},
             messages |-> NoChannel]
       ELSE IF ~sp.ok
       THEN [ok |-> FALSE, tasks |-> <<>>, running |-> RuntimeDrop(spawned),
             messages |-> NoChannel]
       ELSE [ok |-> TRUE, tasks |-> sp.tasks, running |-> spawned,
             messages |-> ChannelNew(config.channel)]

\* `file` is the configuration config_file holds; fault "config" is a file
\* Config::load_from_file fails on, fault "runtime" a runtime that build_runtime
\* cannot build. on_load up to the block_on of
\* PluginInner::new (plugin.rs:165-175, 66-85): the configuration is read, the
\* runtime built and the channel created on the host thread; an unreadable file
\* and a runtime that cannot be built return at once. From there the host thread
\* is inside block_on (pc = "load") until load_spawn_failed or load_assign.
on_load(file, fault) ==
    /\ pc = "idle"
    /\ IF fault = "config"
       THEN /\ result' = LoadError(fault)
            /\ UNCHANGED <<pluginVars, chan, cons, pushed, evictLog, call>>
       ELSE IF fault = "runtime"
       THEN LET new == PluginInner_new(file, fault) IN
            /\ result' = LoadError(fault)
            /\ taskState' = [t \in TaskNames |->
                   IF t \in new.running THEN "running" ELSE taskState[t]]
            /\ UNCHANGED <<inner, filters, encoder, tasks, shutdown, runtime,
                           limits, pc, chan, cons, pushed, evictLog, budget, call,
                           joinErrs, lock, prod, loading>>
       ELSE /\ pc' = "load"
            /\ loading' = [file |-> file,
                           at |-> NextService(file, 1), tasks |-> <<>>,
                           messages |-> ChannelNew(file.channel),
                           cons |-> [c \in Consumers |-> NoCursor]]
            /\ UNCHANGED <<inner, filters, encoder, tasks, shutdown, runtime,
                           taskState, limits, chan, result, cons, pushed, evictLog,
                           budget, call, joinErrs, lock, prod>>

\* One spawn of the block_on body (plugin.rs:91-108, 111-128, 131-138) resolves
\* to Ok: the service is pushed to the local `tasks` and runs on the new runtime
\* from here on, while the host thread goes on to the next configured service.
load_spawn ==
    /\ pc = "load"
    /\ loading.at \in 1..Len(SpawnOrder)
    /\ loading' = [loading EXCEPT
                       !.tasks = Append(@, SpawnOrder[loading.at]),
                       !.at = NextService(loading.file, loading.at + 1)]
    /\ UNCHANGED <<inner, filters, encoder, tasks, shutdown, runtime, taskState,
                   limits, pc, chan, result, cons, pushed, evictLog, budget, call,
                   joinErrs, lock, prod>>

\* The spawn of service `fault` resolves to Err: `?` leaves block_on and
\* PluginInner::new, whose locals (the runtime with the tasks spawned so far,
\* the Sender) are dropped, and on_load returns the error (plugin.rs:105, 125,
\* 135, 142, 175-177). self.inner is not assigned.
load_spawn_failed(fault) ==
    /\ pc = "load"
    /\ loading.at \in 1..Len(SpawnOrder)
    /\ SpawnOrder[loading.at] = fault
    /\ LET new == PluginInner_new(loading.file, fault) IN
       taskState' = [t \in TaskNames |->
           IF t \in new.running THEN "running" ELSE taskState[t]]
    /\ result' = LoadError(fault)
    /\ pc' = "idle"
    /\ loading' = NoLoading
    /\ UNCHANGED <<inner, filters, encoder, tasks, shutdown, runtime, limits,
                   chan, cons, pushed, evictLog, budget, call, joinErrs, lock, prod>>

\* block_on returns Ok, PluginInner::new returns Ok(Self {..}) and on_load
\* assigns self.inner = Some(new) (plugin.rs:140-151, 175-179): a previous
\* inner is dropped with its runtime, its Sender and its tasks. The cursors
\* the new services took while the load was in progress stay with them.
load_assign ==
    /\ pc = "load"
    /\ loading.at > Len(SpawnOrder)
    /\ inner' = "Some"
    /\ filters' = loading.file.filters
    /\ encoder' = loading.file.channel.encoder
    /\ tasks' = loading.tasks
    /\ shutdown' = FALSE
    /\ runtime' = "up"
    /\ taskState' = [t \in TaskNames |->
           IF t \in Spawned(loading) THEN "running" ELSE "none"]
    /\ chan' = loading.messages
    /\ limits' = loading.file.channel
    /\ cons' = loading.cons
    /\ pushed' = <<>>
    /\ evictLog' = <<>>
    /\ result' = Returned("Ok")
    /\ call' = Record(NoCallback)
    /\ joinErrs' = {}
    /\ pc' = "idle"
    /\ loading' = NoLoading
    /\ UNCHANGED <<budget, lock, prod>>

(***************************************************************************)
(* Producer callbacks (plugin.rs:199-317).                                 *)
(***************************************************************************)
\* inner.messages.push(message, inner.encoder)
Push(kind, data_len) ==
    LET size == EncodedLen(kind, data_len)
        after == ChannelPush(chan, size)
    IN /\ chan.next_seq < budget
       /\ chan' = after
       /\ cons' = WakeAll(cons)
       /\ pushed' = Append(pushed, size)
       /\ evictLog' = evictLog \o EvictTrace(ChannelAppend(chan, size))
       /\ result' = Returned("Ok")
       /\ call' = Record([kind |-> kind, startup |-> FALSE, pushed |-> TRUE])
       /\ UNCHANGED pluginVars

\* The callback returns Ok(()) without a push: a startup account update, or an
\* account above the size cap.
NoPush(is_startup) ==
    /\ result' = Returned("Ok")
    /\ call' = Record([kind |-> "Account", startup |-> is_startup, pushed |-> FALSE])
    /\ UNCHANGED <<pluginVars, chan, cons, pushed, evictLog>>

\* update_account dropping an account whose data is exactly as long as the cap.
update_account_CapExclusive(version, data_len, is_startup) ==
    /\ pc = "idle"
    /\ IF is_startup THEN NoPush(TRUE)
       ELSE IF version # "V0_0_3" THEN Panic
       ELSE IF inner = "None" THEN Panic
       ELSE IF \E max_size \in filters.max_account_data_size : data_len >= max_size
            THEN NoPush(FALSE)
       ELSE Push("Account", data_len)

\* update_account forwarding startup updates like any other.
update_account_ForwardsStartup(version, data_len, is_startup) ==
    /\ pc = "idle"
    /\ IF version # "V0_0_3" THEN Panic
       ELSE IF inner = "None" THEN Panic
       ELSE IF \E max_size \in filters.max_account_data_size : data_len > max_size
            THEN NoPush(FALSE)
       ELSE Push("Account", data_len)

update_account(version, data_len, is_startup) ==
    /\ pc = "idle"
    /\ IF is_startup THEN NoPush(TRUE)
       ELSE IF version # "V0_0_3" THEN Panic
       ELSE IF inner = "None" THEN Panic
       ELSE IF \E max_size \in filters.max_account_data_size : data_len > max_size
            THEN NoPush(FALSE)
       ELSE Push("Account", data_len)

\* update_slot_status holding the write back while a subscriber has not read
\* every retained message.
update_slot_status_WaitsForConsumers ==
    /\ pc = "idle"
    /\ \A c \in Consumers : cons[c].status = "none" \/ cons[c].cur = chan.next_seq
    /\ IF inner = "None" THEN Panic ELSE Push("Slot", 0)

update_slot_status ==
    /\ pc = "idle"
    /\ IF inner = "None" THEN Panic ELSE Push("Slot", 0)

\* notify_transaction dropping the transaction when enable_transaction_update
\* is false.
notify_transaction_ConsultsFlag(version) ==
    /\ pc = "idle"
    /\ IF version # "V0_0_3" THEN Panic
       ELSE IF inner = "None" THEN Panic
       ELSE IF ~filters.enable_transaction_update
            THEN /\ result' = Returned("Ok")
                 /\ call' = Record([kind |-> "Transaction", startup |-> FALSE,
                                    pushed |-> FALSE])
                 /\ UNCHANGED <<pluginVars, chan, cons, pushed, evictLog>>
       ELSE Push("Transaction", 0)

notify_transaction(version) ==
    /\ pc = "idle"
    /\ IF version # "V0_0_3" THEN Panic
       ELSE IF inner = "None" THEN Panic
       ELSE Push("Transaction", 0)

\* notify_entry returning Ok(()) without handing the entry to the channel.
notify_entry_DropsEvent(version) ==
    /\ pc = "idle"
    /\ IF version # "V0_0_2" THEN Panic
       ELSE IF inner = "None" THEN Panic
       ELSE /\ result' = Returned("Ok")
            /\ call' = Record([kind |-> "Entry", startup |-> FALSE, pushed |-> FALSE])
            /\ UNCHANGED <<pluginVars, chan, cons, pushed, evictLog>>

notify_entry(version) ==
    /\ pc = "idle"
    /\ IF version # "V0_0_2" THEN Panic
       ELSE IF inner = "None" THEN Panic
       ELSE Push("Entry", 0)

notify_block_metadata(version) ==
    /\ pc = "idle"
    /\ IF version # "V0_0_4" THEN Panic
       ELSE IF inner = "None" THEN Panic
       ELSE Push("BlockMeta", 0)

(***************************************************************************)
(* Capability queries (plugin.rs:319-341): what the call returns to the    *)
(* host in the current state, "Panic" where expect("initialized") fails.   *)
(***************************************************************************)
Bool(b) == IF b THEN "true" ELSE "false"

account_data_notifications_enabled ==
    IF inner = "None" THEN "Panic" ELSE Bool(filters.enable_account_update)

account_data_snapshot_notifications_enabled == Bool(FALSE)

transaction_notifications_enabled ==
    IF inner = "None" THEN "Panic" ELSE Bool(filters.enable_transaction_update)

entry_notifications_enabled == Bool(TRUE)

(***************************************************************************)
(* on_unload (plugin.rs:182-197). The host thread holds &mut self for the  *)
(* whole call, so no other plugin entry point runs while pc # "idle"; the  *)
(* service tasks and their subscribers run on the runtime's own threads.   *)
(***************************************************************************)
\* on_unload raising the cancellation signal before it closes the channel.
UnloadOrder_CancelFirst == <<"cancel", "close", "join", "teardown">>

\* The statements of the `if let` body, in program order: close the channel,
\* cancel the token, join the tasks, shut the runtime down.
UnloadOrder == <<"close", "cancel", "join", "teardown">>

\* The position after statement p ("idle": on_unload has returned).
After(p) ==
    LET i == CHOOSE k \in 1..Len(UnloadOrder) : UnloadOrder[k] = p
    IN IF i = Len(UnloadOrder) THEN "idle" ELSE UnloadOrder[i + 1]

\* on_unload borrowing the inner (as_ref) where the code takes it: the plugin
\* still holds its inner, channel included, when on_unload has returned.
on_unload_KeepsInner ==
    /\ pc = "idle"
    /\ result' = Returned("Unit")
    /\ IF inner = "Some" /\ ~chan.closed
       THEN /\ pc' = UnloadOrder[1]
            /\ UNCHANGED <<inner, filters, encoder, tasks, shutdown, runtime, taskState,
                           limits, chan, cons, pushed, evictLog, budget, call, joinErrs,
                           lock, prod, loading>>
       ELSE UNCHANGED <<pluginVars, chan, cons, pushed, evictLog, call>>

\* on_unload running its body without looking whether there is an inner.
on_unload_NoCheck ==
    /\ pc = "idle"
    /\ result' = Returned("Unit")
    /\ inner' = "None"
    /\ pc' = UnloadOrder[1]
    /\ UNCHANGED <<filters, encoder, tasks, shutdown, runtime, taskState,
                   limits, chan, cons, pushed, evictLog, budget, call, joinErrs, lock, prod, loading>>

\* if let Some(inner) = self.inner.take()                     (plugin.rs:183)
on_unload ==
    /\ pc = "idle"
    /\ result' = Returned("Unit")
    /\ IF inner = "Some"
       THEN /\ inner' = "None"
            /\ pc' = UnloadOrder[1]
            /\ UNCHANGED <<filters, encoder, tasks, shutdown, runtime, taskState,
                           limits, chan, cons, pushed, evictLog, budget, call, joinErrs, lock, prod, loading>>
       ELSE UNCHANGED <<pluginVars, chan, cons, pushed, evictLog, call>>

\* on_unload going on without closing the channel.
unload_close_Forgotten ==
    /\ pc = "close"
    /\ pc' = After("close")
    /\ UNCHANGED <<inner, filters, encoder, tasks, shutdown, runtime, taskState,
                   limits, chan, cons, result, pushed, evictLog, budget, call, joinErrs, lock, prod, loading>>

\* inner.messages.close()                                      (plugin.rs:184)
unload_close ==
    /\ pc = "close"
    /\ chan' = ChannelClose(chan)
    /\ cons' = WakeAll(cons)
    /\ pc' = After("close")
    /\ UNCHANGED <<inner, filters, encoder, tasks, shutdown, runtime, taskState,
                   limits, result, pushed, evictLog, budget, call, joinErrs, lock, prod, loading>>

\* inner.shutdown.cancel()                                     (plugin.rs:186)
unload_cancel ==
    /\ pc = "cancel"
    /\ shutdown' = TRUE
    /\ pc' = After("cancel")
    /\ UNCHANGED <<inner, filters, encoder, tasks, runtime, taskState, limits,
                   chan, result, cons, pushed, evictLog, budget, call, joinErrs, lock, prod, loading>>

\* The join loop leaving at the first JoinError, as `?` would, with the rest of
\* the tasks not awaited.
unload_join_AbortsOnError ==
    /\ pc = "join"
    /\ tasks # <<>>
    /\ taskState[Head(tasks)] \in {"finished", "failed"}
    /\ IF taskState[Head(tasks)] = "failed"
       THEN /\ pc' = After("join")
            /\ joinErrs' = joinErrs \cup {Head(tasks)}
            /\ UNCHANGED <<tasks, taskState>>
       ELSE /\ tasks' = Tail(tasks)
            /\ taskState' = [taskState EXCEPT ![Head(tasks)] = "joined"]
            /\ UNCHANGED <<pc, joinErrs>>
    /\ UNCHANGED <<inner, filters, encoder, shutdown, runtime, limits, chan,
                   result, cons, pushed, evictLog, budget, call, lock, prod, loading>>

\* for (name, task) in inner.tasks { task.0.await }        (plugin.rs:187-193)
\* The await has no timeout: it resolves when the task has ended, with Ok or with
\* a JoinError that is logged.
unload_join ==
    /\ pc = "join"
    /\ tasks # <<>>
    /\ taskState[Head(tasks)] \in {"finished", "failed"}
    /\ tasks' = Tail(tasks)
    /\ taskState' = [taskState EXCEPT ![Head(tasks)] = "joined"]
    /\ joinErrs' = IF taskState[Head(tasks)] = "failed"
                   THEN joinErrs \cup {Head(tasks)} ELSE joinErrs
    /\ UNCHANGED <<inner, filters, encoder, shutdown, runtime, limits, pc, chan,
                   result, cons, pushed, evictLog, budget, call, lock, prod, loading>>

\* The loop is over: block_on returns.
unload_joined ==
    /\ pc = "join"
    /\ tasks = <<>>
    /\ pc' = After("join")
    /\ UNCHANGED <<inner, filters, encoder, tasks, shutdown, runtime, taskState,
                   limits, chan, result, cons, pushed, evictLog, budget, call, joinErrs, lock, prod, loading>>

\* inner.runtime.shutdown_timeout(Duration::from_secs(10))     (plugin.rs:195)
\* and the end of the block, where the rest of `inner` is dropped.
unload_teardown ==
    /\ pc = "teardown"
    /\ runtime' = "none"
    /\ taskState' = [t \in TaskNames |-> "none"]
    /\ cons' = [c \in Consumers |-> NoCursor]
    /\ filters' = ConfigFiltersDefault
    /\ encoder' = ConfigChannelDefaultEncoder
    /\ shutdown' = FALSE
    /\ pc' = After("teardown")
    /\ UNCHANGED <<inner, tasks, limits, chan, result, pushed, evictLog, budget, call,
                   joinErrs, lock, prod, loading>>

(***************************************************************************)
(* The service tasks: once the cancellation signal is raised a server      *)
(* returns, or ends with a JoinError; it may also do neither.              *)
(***************************************************************************)
TaskFinish(t) ==
    /\ taskState[t] = "running"
    /\ shutdown
    /\ taskState' = [taskState EXCEPT ![t] = "finished"]
    /\ UNCHANGED <<inner, filters, encoder, tasks, shutdown, runtime, limits, pc,
                   chan, result, cons, pushed, evictLog, budget, call, joinErrs, lock, prod, loading>>

TaskFail(t) ==
    /\ taskState[t] = "running"
    /\ shutdown
    /\ taskState' = [taskState EXCEPT ![t] = "failed"]
    /\ UNCHANGED <<inner, filters, encoder, tasks, shutdown, runtime, limits, pc,
                   chan, result, cons, pushed, evictLog, budget, call, joinErrs, lock, prod, loading>>

(***************************************************************************)
(* Subscribers of the transports (spec.md 4.2, 4.3).                       *)
(***************************************************************************)
\* subscribe(): a live cursor, positioned at the next sequence number.
NewCursor(ch) ==
    [NoCursor EXCEPT !.status = "ready", !.cur = ch.next_seq, !.first = ch.next_seq]

\* One call of next on cursor cu of channel ch, as the consumer sees it: the
\* contract of next (spec.md 4.2) taken as one step, which resolves the call or
\* leaves the consumer suspended. The order in which the channel's own code reads
\* the buffer and registers the task for the wake-up is not part of plugin.rs or
\* of that contract, and is not modelled: no property below is about a push or
\* a close that falls between the two.
CursorStep(ch, cu) ==
    LET r == CursorNext(ch, cu.cur) IN
    IF r.t = "Pending"
    THEN [cu EXCEPT !.status = "waiting"]
    ELSE LET out == [t |-> r.t, n |-> r.n, at |-> r.at, msg |-> r.msg] IN
         [cu EXCEPT !.cur = r.cur,
                    !.last = out,
                    !.log = CASE r.t = "Lagged" -> <<out>>
                              [] r.t = "Delivered" -> Append(@, out)
                              [] OTHER -> @]

Subscribe(c) ==
    /\ runtime = "up"
    /\ taskState[c] = "running"
    /\ cons[c].status = "none"
    /\ cons' = [cons EXCEPT ![c] = NewCursor(chan)]
    /\ UNCHANGED <<pluginVars, chan, result, pushed, evictLog, call>>

\* next(cursor)
ConsumerNext(c) ==
    /\ cons[c].status = "ready"
    /\ cons' = [cons EXCEPT ![c] = CursorStep(chan, @)]
    /\ UNCHANGED <<pluginVars, chan, result, pushed, evictLog, call>>

\* The same two steps of a transport spawned by a PluginInner::new that is still
\* in progress: the service runs on the new runtime from the moment its spawn
\* resolved and holds a clone of the new Sender (plugin.rs:99, 119), before
\* on_load has returned.
loading_Subscribe(c) ==
    /\ pc = "load"
    /\ c \in Spawned(loading)
    /\ loading.cons[c].status = "none"
    /\ loading' = [loading EXCEPT !.cons[c] = NewCursor(loading.messages)]
    /\ UNCHANGED <<inner, filters, encoder, tasks, shutdown, runtime, taskState,
                   limits, pc, chan, result, cons, pushed, evictLog, budget, call,
                   joinErrs, lock, prod>>

loading_ConsumerNext(c) ==
    /\ pc = "load"
    /\ loading.cons[c].status = "ready"
    /\ loading' = [loading EXCEPT !.cons[c] = CursorStep(loading.messages, @)]
    /\ UNCHANGED <<inner, filters, encoder, tasks, shutdown, runtime, taskState,
                   limits, pc, chan, result, cons, pushed, evictLog, budget, call,
                   joinErrs, lock, prod>>

(***************************************************************************)
(* Producer callbacks called from more than one host thread at a time (the *)
(* callbacks take &self). The adapter's part of a callback is plugin.rs;   *)
(* inside push the channel serialises append-and-evict behind one          *)
(* exclusive section (spec.md 5), shown here step by step.                 *)
(***************************************************************************)
InFlight == {t \in Threads : prod[t].pc # "idle"}

\* Thread t enters update_slot_status, notify_transaction or a non-startup
\* update_account with the newest version, and reaches inner.messages.push; an
\* account above the size cap returns at once.
producer_call(t, kind, data_len) ==
    /\ pc = "idle"
    /\ inner = "Some"
    /\ prod[t].pc = "idle"
    /\ Len(pushed) + Cardinality(InFlight) < budget
    /\ IF kind = "Account"
          /\ \E max_size \in filters.max_account_data_size : data_len > max_size
       THEN /\ result' = Returned("Ok")
            /\ call' = Record([kind |-> kind, startup |-> FALSE, pushed |-> FALSE])
            /\ UNCHANGED prod
       ELSE /\ prod' = [prod EXCEPT ![t] =
                    [pc |-> "lock", kind |-> kind, size |-> EncodedLen(kind, data_len),
                     seq |-> -1]]
            /\ UNCHANGED <<result, call>>
    /\ UNCHANGED <<inner, filters, encoder, tasks, shutdown, runtime, taskState, limits,
                   pc, budget, joinErrs, lock, chan, cons, pushed, evictLog, loading>>

\* The exclusive section entered without waiting for it to be free.
producer_lock_NoExclusion(t) ==
    /\ prod[t].pc = "lock"
    /\ lock' = t
    /\ prod' = [prod EXCEPT ![t].pc = "seq"]
    /\ UNCHANGED <<inner, filters, encoder, tasks, shutdown, runtime, taskState, limits,
                   pc, budget, joinErrs, chan, result, cons, pushed, evictLog, call, loading>>

\* push: enter the exclusive section.
producer_lock(t) ==
    /\ prod[t].pc = "lock"
    /\ lock = "free"
    /\ lock' = t
    /\ prod' = [prod EXCEPT ![t].pc = "seq"]
    /\ UNCHANGED <<inner, filters, encoder, tasks, shutdown, runtime, taskState, limits,
                   pc, budget, joinErrs, chan, result, cons, pushed, evictLog, call, loading>>

\* push: take the next sequence number.
producer_seq(t) ==
    /\ prod[t].pc = "seq"
    /\ prod' = [prod EXCEPT ![t].pc = "append", ![t].seq = chan.next_seq]
    /\ UNCHANGED <<inner, filters, encoder, tasks, shutdown, runtime, taskState, limits,
                   pc, budget, joinErrs, lock, chan, result, cons, pushed, evictLog,
                   call, loading>>

\* push: append the message under the sequence number taken.
producer_append(t) ==
    /\ prod[t].pc = "append"
    /\ chan' = [chan EXCEPT !.buf = Append(@, [seq |-> prod[t].seq,
                                               size |-> prod[t].size]),
                            !.bytes = @ + prod[t].size,
                            !.count = @ + 1,
                            !.next_seq = prod[t].seq + 1]
    /\ pushed' = Append(pushed, prod[t].size)
    /\ prod' = [prod EXCEPT ![t].pc = "evict"]
    /\ UNCHANGED <<inner, filters, encoder, tasks, shutdown, runtime, taskState, limits,
                   pc, budget, joinErrs, lock, result, cons, evictLog, call, loading>>

\* push: evict the oldest message while a limit is exceeded.
producer_evict(t) ==
    /\ prod[t].pc = "evict"
    /\ IF chan.count > 0 /\ OverCapacity(chan)
       THEN /\ chan' = EvictOldest(chan)
            /\ evictLog' = Append(evictLog, Head(chan.buf).seq)
            /\ UNCHANGED prod
       ELSE /\ prod' = [prod EXCEPT ![t].pc = "wake"]
            /\ UNCHANGED <<chan, evictLog>>
    /\ UNCHANGED <<inner, filters, encoder, tasks, shutdown, runtime, taskState, limits,
                   pc, budget, joinErrs, lock, result, cons, pushed, call, loading>>

\* push: leave the exclusive section and wake the suspended consumers; the
\* callback returns Ok(()).
producer_unlock(t) ==
    /\ prod[t].pc = "wake"
    /\ lock' = IF lock = t THEN "free" ELSE lock
    /\ cons' = WakeAll(cons)
    /\ result' = Returned("Ok")
    /\ call' = Record([kind |-> prod[t].kind, startup |-> FALSE, pushed |-> TRUE])
    /\ prod' = [prod EXCEPT ![t] = IdleProducer]
    /\ UNCHANGED <<inner, filters, encoder, tasks, shutdown, runtime, taskState, limits,
                   pc, budget, joinErrs, chan, pushed, evictLog, loading>>

(***************************************************************************)
(* The program.                                                            *)
(***************************************************************************)
AccountVersions == {"V0_0_1", "V0_0_2", "V0_0_3"}
TransactionVersions == {"V0_0_1", "V0_0_2", "V0_0_3"}
EntryVersions == {"V0_0_1", "V0_0_2"}
BlockVersions == {"V0_0_1", "V0_0_2", "V0_0_3", "V0_0_4"}
DataLens == {1, 3}
\* What on_load may meet before it reaches the spawns.
Faults == {"none", "config", "runtime"}

Next ==
    \/ \E file \in Configs, fault \in Faults : on_load(file, fault)
    \/ load_spawn
    \/ \E fault \in TaskNames : load_spawn_failed(fault)
    \/ load_assign
    \/ \E c \in Consumers : loading_Subscribe(c)
    \/ \E c \in Consumers : loading_ConsumerNext(c)
    \/ on_unload
    \/ unload_close
    \/ unload_cancel
    \/ unload_join
    \/ unload_joined
    \/ unload_teardown
    \/ \E v \in AccountVersions, n \in DataLens, st \in BOOLEAN : update_account(v, n, st)
    \/ update_slot_status
    \/ \E v \in TransactionVersions : notify_transaction(v)
    \/ \E v \in EntryVersions : notify_entry(v)
    \/ \E v \in BlockVersions : notify_block_metadata(v)
    \/ \E t \in TaskNames : TaskFinish(t)
    \/ \E t \in TaskNames : TaskFail(t)
    \/ \E c \in Consumers : Subscribe(c)
    \/ \E c \in Consumers : ConsumerNext(c)

Spec == Init /\ [][Next]_vars

(***************************************************************************)
(* The Running plugin on its own: the state on_load leaves with no fault,  *)
(* then only producer callbacks and subscribers, explored to PushBound.    *)
(***************************************************************************)
\* A configuration without a size cap takes messages of more than one size and
\* is explored to MaxPushesSized pushes; one with the cap takes unit messages
\* only and is explored to MaxPushes.
PushBound(file) ==
    IF file.filters.max_account_data_size = {} THEN MaxPushesSized ELSE MaxPushes

InitChannel ==
    \E file \in Configs :
        LET new == PluginInner_new(file, "none") IN
        /\ inner = "Some"
        /\ filters = file.filters
        /\ encoder = file.channel.encoder
        /\ tasks = new.tasks
        /\ shutdown = FALSE
        /\ runtime = "up"
        /\ taskState = [t \in TaskNames |->
                IF t \in new.running THEN "running" ELSE "none"]
        /\ chan = new.messages
        /\ limits = file.channel
        /\ pc = "idle"
        /\ result = Returned("Ok")
        /\ cons = [c \in Consumers |-> NoCursor]
        /\ pushed = <<>>
        /\ evictLog = <<>>
        /\ budget = PushBound(file)
        /\ call = NotRecorded
        /\ joinErrs = {}
        /\ lock = "free"
        /\ prod = NoProducers
        /\ loading = NoLoading

NextChannel ==
    \/ \E v \in AccountVersions, n \in DataLens, st \in BOOLEAN : update_account(v, n, st)
    \/ update_slot_status
    \/ \E v \in TransactionVersions : notify_transaction(v)
    \/ \E v \in EntryVersions : notify_entry(v)
    \/ \E v \in BlockVersions : notify_block_metadata(v)
    \/ \E c \in Consumers : Subscribe(c)
    \/ \E c \in Consumers : ConsumerNext(c)

SpecChannel == InitChannel /\ [][NextChannel]_vars

(***************************************************************************)
(* The Running plugin with its producer callbacks called from the threads  *)
(* of Threads at the same time, explored to ProducerPushes.                *)
(***************************************************************************)
InitProducers ==
    \E file \in Configs :
        LET new == PluginInner_new(file, "none") IN
        /\ inner = "Some"
        /\ filters = file.filters
        /\ encoder = file.channel.encoder
        /\ tasks = new.tasks
        /\ shutdown = FALSE
        /\ runtime = "up"
        /\ taskState = [t \in TaskNames |->
                IF t \in new.running THEN "running" ELSE "none"]
        /\ chan = new.messages
        /\ limits = file.channel
        /\ pc = "idle"
        /\ result = Returned("Ok")
        /\ cons = [c \in Consumers |-> NoCursor]
        /\ pushed = <<>>
        /\ evictLog = <<>>
        /\ budget = ProducerPushes
        /\ call = NotRecorded
        /\ joinErrs = {}
        /\ lock = "free"
        /\ prod = NoProducers
        /\ loading = NoLoading

ProducerKinds == {"Slot", "Transaction", "Account"}

NextProducers ==
    \/ \E t \in Threads, kind \in ProducerKinds, n \in DataLens : producer_call(t, kind, n)
    \/ \E t \in Threads : producer_lock(t)
    \/ \E t \in Threads : producer_seq(t)
    \/ \E t \in Threads : producer_append(t)
    \/ \E t \in Threads : producer_evict(t)
    \/ \E t \in Threads : producer_unlock(t)

SpecProducers == InitProducers /\ [][NextProducers]_vars

(***************************************************************************)
(* The host's calls on their own: the plugin from Plugin::default(), loaded *)
(* and unloaded by the host, with the history of the producer callbacks     *)
(* kept and no subscriber, explored to CallbackPushes per load.             *)
(***************************************************************************)
InitCallbacks ==
    /\ inner = "None"
    /\ filters = ConfigFiltersDefault
    /\ encoder = ConfigChannelDefaultEncoder
    /\ tasks = <<>>
    /\ shutdown = FALSE
    /\ runtime = "none"
    /\ taskState = [t \in TaskNames |-> "none"]
    /\ chan = NoChannel
    /\ limits = ChannelLimits
    /\ pc = "idle"
    /\ result = NoCall
    /\ cons = [c \in Consumers |-> NoCursor]
    /\ pushed = <<>>
    /\ evictLog = <<>>
    /\ budget = CallbackPushes
    /\ call = NoCallback
    /\ joinErrs = {}
    /\ lock = "free"
    /\ prod = NoProducers
    /\ loading = NoLoading

NextCallbacks ==
    \/ \E file \in Configs, fault \in Faults : on_load(file, fault)
    \/ load_spawn
    \/ \E fault \in TaskNames : load_spawn_failed(fault)
    \/ load_assign
    \/ on_unload
    \/ unload_close
    \/ unload_cancel
    \/ unload_join
    \/ unload_joined
    \/ unload_teardown
    \/ \E v \in AccountVersions, n \in DataLens, st \in BOOLEAN : update_account(v, n, st)
    \/ update_slot_status
    \/ \E v \in TransactionVersions : notify_transaction(v)
    \/ \E v \in EntryVersions : notify_entry(v)
    \/ \E v \in BlockVersions : notify_block_metadata(v)
    \/ \E t \in TaskNames : TaskFinish(t)
    \/ \E t \in TaskNames : TaskFail(t)

SpecCallbacks == InitCallbacks /\ [][NextCallbacks]_vars

(***************************************************************************)
(* Properties.                                                             *)
(***************************************************************************)
RECURSIVE SumSizes(_)
SumSizes(buf) == IF buf = <<>> THEN 0 ELSE Head(buf).size + SumSizes(Tail(buf))

Retained == {chan.buf[i].seq : i \in 1..Len(chan.buf)}
Evicted == {evictLog[i] : i \in 1..Len(evictLog)}
Subscribed(c) == cons[c].status # "none"
NeverLagged(c) == cons[c].log = <<>> \/ cons[c].log[1].t # "Lagged"

\* C1 (capacity invariant): after every push the retained bytes are at most the
\* configured max_bytes and the retained count at most the configured max_messages,
\* both at once, also when the message just pushed is larger than max_bytes by
\* itself; the recorded totals are those of the retained messages, and the recorded
\* oldest sequence is the smallest sequence number still retained.
C1_CapacityInvariant ==
    /\ chan.bytes <= limits.max_bytes
    /\ chan.count <= limits.max_messages
    /\ chan.count = Len(chan.buf)
    /\ chan.bytes = SumSizes(chan.buf)
    /\ \A s \in Retained : chan.oldest <= s
    /\ chan.buf # <<>> => chan.oldest \in Retained

\* The message just pushed was larger than max_bytes, and eviction emptied the buffer.
C1_Witness ==
    /\ inner = "Some"
    /\ pushed # <<>>
    /\ pushed[Len(pushed)] > limits.max_bytes
    /\ evictLog # <<>>
    /\ chan.count = 0

\* C2 (order preservation): a consumer that never lagged has received exactly the
\* messages pushed since it subscribed, up to its cursor, in push order and with
\* contiguous sequence numbers (all N of them once it has caught up); and the
\* messages two consumers both received are in the same relative order for both.
C2_OrderPreservation ==
    /\ \A c \in Consumers :
          (Subscribed(c) /\ NeverLagged(c)) =>
             /\ Len(cons[c].log) = cons[c].cur - cons[c].first
             /\ cons[c].cur <= chan.next_seq
             /\ \A i \in 1..Len(cons[c].log) :
                   /\ cons[c].log[i].t = "Delivered"
                   /\ cons[c].log[i].msg = [seq |-> cons[c].first + i - 1,
                                            size |-> pushed[cons[c].first + i]]
    /\ \A c, d \in Consumers :
          \A i, j \in 1..Len(cons[c].log) : \A k, l \in 1..Len(cons[d].log) :
             ( /\ i < j
               /\ cons[c].log[i].t = "Delivered" /\ cons[c].log[j].t = "Delivered"
               /\ cons[d].log[k].t = "Delivered" /\ cons[d].log[l].t = "Delivered"
               /\ cons[c].log[i].msg = cons[d].log[k].msg
               /\ cons[c].log[j].msg = cons[d].log[l].msg ) => k < l

\* A consumer that never lagged has caught up with three or more messages while
\* older ones were being evicted, and the other consumer received two of them too.
C2_Witness ==
    \E c, d \in Consumers :
        /\ c # d
        /\ Subscribed(c) /\ NeverLagged(c)
        /\ Len(cons[c].log) >= 3
        /\ cons[c].cur = chan.next_seq
        /\ evictLog # <<>>
        /\ Len(cons[d].log) >= 2
        /\ cons[d].log[Len(cons[d].log)].t = "Delivered"
        /\ cons[d].log[Len(cons[d].log) - 1].t = "Delivered"

\* C3 (lag correctness): a call of next made with the cursor below the oldest
\* retained sequence returns Lagged(n) with n the number of messages pushed at or
\* after the cursor and evicted unread, and moves the cursor to the oldest retained
\* message, skipping no retained one; a Delivered result that follows a Lagged one
\* is that message. Scenario A: with max_messages = 4, a consumer subscribed before
\* any push that first reads after five pushes gets Lagged(1), then the messages
\* 1, 2, 3, 4 (B, C, D, E), then suspends.
ScenarioLog ==
    <<[t |-> "Lagged", n |-> 1, at |-> 0, msg |-> NoMessage]>> \o
    [i \in 1..4 |-> [t |-> "Delivered", n |-> 0, at |-> i, msg |-> [seq |-> i, size |-> 1]]]

ScenarioA(c) ==
    ( /\ limits.max_messages = 4
      /\ Subscribed(c) /\ cons[c].first = 0
      /\ chan.next_seq = 5 ) =>
        /\ cons[c].cur = 0 => CursorNext(chan, 0).t = "Lagged" /\ CursorNext(chan, 0).n = 1
        /\ ~NeverLagged(c) =>
              /\ Len(cons[c].log) <= 5
              /\ cons[c].log = SubSeq(ScenarioLog, 1, Len(cons[c].log))
              /\ Len(cons[c].log) = 5 => CursorNext(chan, cons[c].cur).t = "Pending"

LagStep(c) == cons'[c].last.t = "Lagged" /\ cons'[c].last # cons[c].last

LagAction(c) ==
    LagStep(c) =>
        /\ cons[c].cur < chan.oldest
        /\ cons'[c].last.at = cons[c].cur
        /\ cons'[c].last.n = Cardinality({s \in Evicted : s >= cons[c].cur})
        /\ cons'[c].cur = chan.oldest
        /\ \A s \in Retained : s >= cons'[c].cur
        /\ chan.buf # <<>> =>
              /\ CursorNext(chan, cons'[c].cur).t = "Delivered"
              /\ CursorNext(chan, cons'[c].cur).msg = Head(chan.buf)

DeliveredAfterLag(c) ==
    (cons[c].last.t = "Lagged" /\ cons'[c].last.t = "Delivered") =>
        cons'[c].last.msg.seq = cons[c].last.at + cons[c].last.n

C3_LagCorrectness ==
    /\ [](\A c \in Consumers : ScenarioA(c))
    /\ [][\A c \in Consumers : LagAction(c) /\ DeliveredAfterLag(c)]_vars

\* Scenario A has run to its end: Lagged(1), four messages, and the consumer is
\* suspended.
C3_Witness ==
    \E c \in Consumers :
        /\ limits.max_messages = 4
        /\ cons[c].first = 0
        /\ chan.next_seq = 5
        /\ cons[c].log = ScenarioLog
        /\ cons[c].status = "waiting"

\* C4 (FIFO eviction): messages are evicted in strictly increasing sequence order,
\* oldest first, never while a smaller sequence number is retained; the retained
\* messages are one contiguous range ending at the newest; and what a cursor misses
\* is a contiguous range of evicted messages, never holes: its results tile the
\* sequence numbers from where they start to its cursor.
Step(e) == IF e.t = "Lagged" THEN e.n ELSE 1

C4_FifoEviction ==
    /\ \A i, j \in 1..Len(evictLog) : i < j => evictLog[i] < evictLog[j]
    /\ \A e \in Evicted : \A r \in Retained : e < r
    /\ \A i \in 1..Len(chan.buf) : chan.buf[i].seq = chan.next_seq - Len(chan.buf) + i - 1
    /\ Evicted \cup Retained = 0..(chan.next_seq - 1)
    /\ \A c \in Consumers :
          LET log == cons[c].log IN
          /\ \A i \in 1..Len(log) :
                /\ log[i].t = "Lagged" =>
                      /\ log[i].n >= 1
                      /\ (log[i].at)..(log[i].at + log[i].n - 1) \subseteq Evicted
                /\ i < Len(log) => log[i + 1].at = log[i].at + Step(log[i])
          /\ log # <<>> => cons[c].cur = log[Len(log)].at + Step(log[Len(log)])

\* Two or more messages were evicted, some are retained, and a cursor missed a
\* range of two or more.
C4_Witness ==
    /\ Len(evictLog) >= 2
    /\ chan.count >= 1
    /\ \E c \in Consumers :
          /\ cons[c].log # <<>>
          /\ cons[c].log[1].t = "Lagged"
          /\ cons[c].log[1].n >= 2
          /\ Len(cons[c].log) >= 2

\* C6 (producer independence): while the plugin is Running, whatever the cursors
\* are doing and however full the buffer is, update_slot_status is enabled and its
\* one step appends the message and returns Ok without touching any cursor
\* position; and a consumer with a message to read can read it whatever the other
\* consumer does.
CanPush == inner = "Some" /\ pc = "idle" /\ chan.next_seq < budget

C6_ProducerIndependence ==
    /\ [](CanPush => ENABLED update_slot_status)
    /\ [](\A c \in Consumers :
            (cons[c].status = "ready" /\ cons[c].cur < chan.next_seq) =>
                ENABLED ConsumerNext(c))
    /\ [][(inner = "Some" /\ update_slot_status) =>
            /\ chan'.next_seq = chan.next_seq + 1
            /\ pushed' = Append(pushed, 1)
            /\ result' = Returned("Ok")
            /\ \A c \in Consumers : cons'[c].cur = cons[c].cur]_vars

\* The buffer is at a limit and a push is due, one consumer is stalled behind the
\* retained window, and the other one has just received the newest message.
C6_Witness ==
    \E c, d \in Consumers :
        /\ c # d
        /\ CanPush
        /\ chan.count = limits.max_messages \/ chan.bytes = limits.max_bytes
        /\ cons[c].status = "ready" /\ cons[c].cur < chan.oldest
        /\ cons[d].last.t = "Delivered"
        /\ cons[d].last.msg.seq = chan.next_seq - 1

\* C5 (close and end-of-stream): once on_unload has closed the channel it stays
\* closed to the end of the unload and after it, and closing it again changes
\* nothing; every consumer that was suspended in next when the channel was closed
\* is woken, and its call resolves to EndOfStream; a cursor that has received
\* EndOfStream receives EndOfStream from every later call.
C5_CloseEndOfStream ==
    /\ [](pc \in {"cancel", "join", "teardown"} => chan.closed)
    /\ []((inner = "None" /\ pc = "idle") => chan.closed)
    /\ [](ChannelClose(ChannelClose(chan)) = ChannelClose(chan))
    /\ [](chan.closed => ChannelClose(chan) = chan)
    /\ [](chan.closed => \A c \in Consumers : cons[c].status # "waiting")
    /\ [][\A c \in Consumers :
            (cons[c].status = "waiting" /\ pc = "close" /\ pc' # "close") =>
                /\ chan'.closed
                /\ cons'[c].status = "ready"
                /\ CursorNext(chan', cons'[c].cur).t = "EndOfStream"]_vars
    /\ [][\A c \in Consumers :
            ( /\ chan.closed /\ cons[c].cur = chan.next_seq
              /\ cons'[c].status # "none" /\ cons'[c].last # cons[c].last ) =>
                cons'[c].last.t = "EndOfStream"]_vars
    /\ [][\A c \in Consumers :
            (cons[c].last.t = "EndOfStream" /\ cons'[c].status # "none") =>
                cons'[c].last.t = "EndOfStream"]_vars

\* A consumer that had received messages got EndOfStream while on_unload was
\* joining the tasks.
C5_Witness ==
    \E c \in Consumers :
        /\ pc = "join"
        /\ cons[c].last.t = "EndOfStream"
        /\ cons[c].log # <<>>
        /\ cons[c].cur = chan.next_seq

\* C7 (shutdown ordering): on_unload on a Running plugin closes the channel first,
\* then raises the cancellation signal, then awaits every recorded task, then tears
\* the runtime down: the signal is never raised while the channel is open, no task
\* is joined before the signal is raised, and the runtime is torn down only when
\* every recorded task has been joined.
C7_ShutdownOrdering ==
    /\ [](shutdown => chan.closed)
    /\ [](pc = "close" => (~chan.closed /\ ~shutdown))
    /\ [](pc \in {"close", "cancel"} => \A t \in TaskNames : taskState[t] # "joined")
    /\ [](pc \in {"join", "teardown"} => (chan.closed /\ shutdown))
    /\ []((\E t \in TaskNames : taskState[t] = "joined") => shutdown)
    /\ [](pc = "teardown" =>
            (tasks = <<>> /\ \A t \in TaskNames : taskState[t] \in {"none", "joined"}))
    /\ [][(runtime = "up" /\ runtime' = "none") =>
            (pc = "teardown" /\ pc' = "idle" /\ tasks = <<>>)]_vars

\* Two or more recorded tasks have been joined and the runtime is about to be torn
\* down.
C7_Witness ==
    /\ pc = "teardown"
    /\ runtime = "up"
    /\ Cardinality({t \in TaskNames : taskState[t] = "joined"}) >= 2

\* C8 (bounded shutdown): on_unload always returns: while it waits for the tasks it
\* can always go on by a step of its own, whether or not the task it waits for ever
\* completes.
C8_BoundedShutdown ==
    pc = "join" => ENABLED (unload_join \/ unload_joined)

\* C9 (atomic load): an on_load that fails (unreadable configuration, runtime
\* construction, or the spawn of a configured service, also after an earlier service
\* was spawned and had started to run) returns an error, leaves the plugin's inner
\* as it was from the call to the return, and leaves no service task of the attempt
\* running: once on_load has returned nothing of the attempt is left.
C9_AtomicLoad ==
    /\ [][\A file \in Configs, fault \in {"config", "runtime"} :
            on_load(file, fault) =>
                /\ result' = LoadError(fault)
                /\ pc' = "idle"
                /\ UNCHANGED <<inner, filters, encoder, tasks, shutdown, runtime, chan>>
                /\ \A t \in TaskNames :
                      taskState'[t] = "running" => taskState[t] = "running"]_vars
    /\ [][pc' = "load" =>
            UNCHANGED <<inner, filters, encoder, tasks, shutdown, runtime, chan,
                        taskState, result>>]_vars
    /\ [][\A fault \in TaskNames :
            load_spawn_failed(fault) =>
                /\ IsConfigured(loading.file, fault)
                /\ result' = LoadError(fault)
                /\ pc' = "idle"
                /\ UNCHANGED <<inner, filters, encoder, tasks, shutdown, runtime, chan>>
                /\ \A t \in TaskNames :
                      taskState'[t] = "running" => taskState[t] = "running"]_vars
    /\ [](pc # "load" => loading = NoLoading)
    /\ []((result.res = "Err" /\ inner = "None" /\ pc = "idle") =>
            (runtime = "none" /\ \A t \in TaskNames : taskState[t] = "none"))

\* The spawn of the Quic server has failed, after the gRPC server had been
\* spawned, on a plugin that is not Running: no inner, and nothing runs.
C9_Witness ==
    /\ result = LoadError(QUIC)
    /\ inner = "None"
    /\ runtime = "none"
    /\ \A t \in TaskNames : taskState[t] = "none"

\* C10 (unload idempotence): on_unload on a plugin with no inner (never loaded, or
\* already unloaded) closes no channel, raises no cancellation, joins no task and
\* changes no plugin state; a second such call changes nothing at all.
C10_UnloadIdempotent ==
    /\ [][(inner = "None" /\ on_unload) =>
            (result' = Returned("Unit")
             /\ UNCHANGED <<pluginVars, chan, cons, pushed, evictLog, call>>)]_vars
    /\ [][(inner = "None" /\ result = Returned("Unit") /\ on_unload) => UNCHANGED vars]_vars

\* on_unload has returned on a plugin that was never loaded.
C10_Witness ==
    /\ result = Returned("Unit")
    /\ inner = "None"
    /\ pc = "idle"
    /\ limits = ChannelLimits

\* C11 (startup account updates are never forwarded): an update_account call
\* with is_startup = true, whatever the version of the account, its data length,
\* the size cap and the enable flags, and whether or not the plugin is loaded,
\* pushes nothing to the channel, wakes no consumer and returns Ok.
C11_StartupNeverForwarded ==
    [][\A v \in AccountVersions, n \in DataLens :
          update_account(v, n, TRUE) =>
              /\ result' = Returned("Ok")
              /\ call'.startup /\ ~call'.pushed
              /\ UNCHANGED <<pluginVars, chan, cons, pushed, evictLog>>]_vars

\* A startup account update has just returned on a Running plugin with no size
\* cap and account updates enabled, after another message was pushed: it left
\* the channel as it was.
C11_Witness ==
    /\ inner = "Some"
    /\ call = [kind |-> "Account", startup |-> TRUE, pushed |-> FALSE]
    /\ result = Returned("Ok")
    /\ filters.max_account_data_size = {}
    /\ filters.enable_account_update
    /\ Len(pushed) = 1

\* C12 (account size filter): on a Running plugin a non-startup update_account
\* whose data is strictly longer than the configured max_account_data_size pushes
\* nothing and returns Ok; one whose data is at most as long as the cap, or of any
\* length when no cap is set, pushes exactly one Account message; and the
\* slot-status, transaction, entry and block-metadata callbacks push their message
\* whatever the cap is.
OverCap(data_len) == \E max_size \in filters.max_account_data_size : data_len > max_size

PushedOne(kind, size) ==
    /\ pushed' = Append(pushed, size)
    /\ chan'.next_seq = chan.next_seq + 1
    /\ call' = [kind |-> kind, startup |-> FALSE, pushed |-> TRUE]
    /\ result' = Returned("Ok")

C12_AccountSizeFilter ==
    /\ [][\A n \in DataLens :
            (inner = "Some" /\ update_account("V0_0_3", n, FALSE)) =>
                IF OverCap(n)
                THEN /\ result' = Returned("Ok")
                     /\ ~call'.pushed
                     /\ UNCHANGED <<chan, cons, pushed, evictLog>>
                ELSE PushedOne("Account", n)]_vars
    /\ [][(inner = "Some" /\ update_slot_status) => PushedOne("Slot", 1)]_vars
    /\ [][(inner = "Some" /\ notify_transaction("V0_0_3")) =>
            PushedOne("Transaction", 1)]_vars
    /\ [][(inner = "Some" /\ notify_entry("V0_0_2")) => PushedOne("Entry", 1)]_vars
    /\ [][(inner = "Some" /\ notify_block_metadata("V0_0_4")) =>
            PushedOne("BlockMeta", 1)]_vars

\* With a cap set and a message as long as the cap pushed, the account update
\* that has just returned, longer than the cap, was dropped.
C12_Witness ==
    /\ inner = "Some"
    /\ filters.max_account_data_size # {}
    /\ call = [kind |-> "Account", startup |-> FALSE, pushed |-> FALSE]
    /\ result = Returned("Ok")
    /\ pushed # <<>>
    /\ \A max_size \in filters.max_account_data_size : pushed[Len(pushed)] = max_size

\* C13 (unsupported input versions are rejected, not crashed on): on a Running
\* plugin, update_account (non-startup), notify_transaction, notify_entry and
\* notify_block_metadata called with a version older than the newest one return
\* an error to the host, push nothing and do not panic.
Rejected ==
    /\ result'.res = "Err"
    /\ UNCHANGED <<inner, chan, pushed>>

C13_UnsupportedVersionRejected ==
    /\ [][\A v \in AccountVersions \ {"V0_0_3"}, n \in DataLens :
            (inner = "Some" /\ update_account(v, n, FALSE)) => Rejected]_vars
    /\ [][\A v \in TransactionVersions \ {"V0_0_3"} :
            (inner = "Some" /\ notify_transaction(v)) => Rejected]_vars
    /\ [][\A v \in EntryVersions \ {"V0_0_2"} :
            (inner = "Some" /\ notify_entry(v)) => Rejected]_vars
    /\ [][\A v \in BlockVersions \ {"V0_0_4"} :
            (inner = "Some" /\ notify_block_metadata(v)) => Rejected]_vars

JoinError == pc = "join" /\ tasks # <<>> /\ taskState[Head(tasks)] = "failed"

C15_JoinErrorNonFatal ==
    /\ [](JoinError => ENABLED unload_join)
    /\ [][(JoinError /\ unload_join) =>
            /\ joinErrs' = joinErrs \cup {Head(tasks)}
            /\ tasks' = Tail(tasks)
            /\ pc' = "join"
            /\ UNCHANGED <<inner, runtime, shutdown, chan, result>>]_vars
    /\ [](pc = "teardown" =>
            (tasks = <<>> /\ \A t \in TaskNames : taskState[t] \in {"none", "joined"}))
    /\ [](pc = "teardown" => ENABLED unload_teardown)
    /\ [][(pc = "teardown" /\ unload_teardown) =>
            /\ pc' = "idle" /\ inner' = "None" /\ runtime' = "none"
            /\ result' = Returned("Unit")]_vars
    /\ [](joinErrs # {} => (pc \in {"join", "teardown"} \/ inner = "None"))

\* The first recorded task ended with a join error, the ones after it were
\* awaited all the same, and on_unload has returned on an Unloaded plugin.
C15_Witness ==
    /\ GRPC \in joinErrs
    /\ QUIC \notin joinErrs
    /\ pc = "idle"
    /\ inner = "None"
    /\ runtime = "none"
    /\ tasks = <<>>
    /\ result = Returned("Unit")

\* C16 (lifecycle transitions): the plugin only moves Unloaded -> Loading ->
\* Running -> ShuttingDown -> Unloaded, a failed load going back from Loading to
\* Unloaded; and an on_load on a Running plugin does not put a new runtime,
\* channel and task set in the place of the running ones, which were not closed,
\* cancelled and joined: it builds none and leaves the running ones as they are.
Phase(i, p) ==
    IF p = "load" THEN "Loading"
    ELSE IF p # "idle" THEN "ShuttingDown"
    ELSE IF i = "Some" THEN "Running" ELSE "Unloaded"

LifecycleMoves ==
    {<<"Unloaded", "Loading">>, <<"Loading", "Running">>, <<"Loading", "Unloaded">>,
     <<"Running", "ShuttingDown">>, <<"ShuttingDown", "Unloaded">>} \cup
    {<<ph, ph>> : ph \in {"Unloaded", "Loading", "Running", "ShuttingDown"}}

C16_LifecycleTransitions ==
    /\ [][(<<Phase(inner, pc), Phase(inner', pc')>> \in LifecycleMoves)]_vars
    /\ [](pc = "load" => inner = "None")
    /\ [][(inner = "Some" /\ load_assign) =>
            UNCHANGED <<runtime, chan, tasks, taskState, shutdown, cons, pushed>>]_vars

\* C18 (concurrent producers): with producer callbacks running on more than one
\* host thread, at most one thread is inside append-and-evict at a time and no
\* other thread changes the channel meanwhile; every push is assigned the next
\* unused sequence number, so the buffer holds strictly increasing, contiguous
\* sequence numbers with no duplicate, and the number of sequence numbers given
\* out is the number of pushes; and whenever no push is in its exclusive section
\* both capacity limits hold.
Inside == {t \in Threads : prod[t].pc \in {"seq", "append", "evict", "wake"}}

C18_ConcurrentProducers ==
    /\ [](Cardinality(Inside) <= 1)
    /\ [](\A t \in Inside : lock = t)
    /\ [](chan.next_seq = Len(pushed))
    /\ [](\A i \in 1..Len(chan.buf) :
            chan.buf[i].seq = chan.next_seq - Len(chan.buf) + i - 1)
    /\ [](\A t, u \in Threads :
            (t # u /\ prod[t].seq >= 0 /\ prod[u].seq >= 0) => prod[t].seq # prod[u].seq)
    /\ [](lock = "free" =>
            (chan.bytes <= limits.max_bytes /\ chan.count <= limits.max_messages
                /\ chan.bytes = SumSizes(chan.buf) /\ chan.count = Len(chan.buf)))
    /\ [][\A t \in Threads :
            (lock = t /\ chan' # chan) =>
                \A u \in Threads \ {t} : prod'[u] = prod[u]]_vars

\* While one thread is inside its push, past the append and before the eviction
\* that the full buffer makes due, the other thread is waiting to enter.
C18_Witness ==
    \E t, u \in Threads :
        /\ t # u
        /\ prod[t].pc = "evict"
        /\ OverCapacity(chan)
        /\ prod[u].pc = "lock"
        /\ Len(pushed) >= 2

\* C19 (one push per accepted callback): on a Running plugin update_slot_status,
\* notify_transaction, notify_entry and notify_block_metadata with the newest
\* version, and a non-startup update_account within the size cap, each push
\* exactly one message of their own category (Slot, Transaction, Entry,
\* BlockMeta, Account) at the end of the channel's push sequence and return Ok,
\* and change nothing else of the plugin (inner, filters, encoder, task list,
\* cancellation signal, runtime); and the push sequence grows in no other way, so
\* it is the sequence of the accepted callbacks in call order.
Accepted(kind, size) ==
    /\ PushedOne(kind, size)
    /\ chan'.buf # <<>> => chan'.buf[Len(chan'.buf)] = [seq |-> chan.next_seq, size |-> size]
    /\ UNCHANGED <<inner, filters, encoder, tasks, shutdown, runtime, taskState, limits>>

C19_OnePushPerCallback ==
    /\ [][(inner = "Some" /\ update_slot_status) => Accepted("Slot", 1)]_vars
    /\ [][(inner = "Some" /\ notify_transaction("V0_0_3")) =>
            Accepted("Transaction", 1)]_vars
    /\ [][(inner = "Some" /\ notify_entry("V0_0_2")) => Accepted("Entry", 1)]_vars
    /\ [][(inner = "Some" /\ notify_block_metadata("V0_0_4")) =>
            Accepted("BlockMeta", 1)]_vars
    /\ [][\A n \in DataLens :
            (inner = "Some" /\ ~OverCap(n) /\ update_account("V0_0_3", n, FALSE)) =>
                Accepted("Account", n)]_vars
    /\ [][pushed' # pushed =>
            \/ pushed' = <<>>
            \/ /\ call'.pushed
               /\ result' = Returned("Ok")
               /\ Len(pushed') = Len(pushed) + 1
               /\ SubSeq(pushed', 1, Len(pushed)) = pushed]_vars
    /\ [](Len(pushed) = chan.next_seq)

\* Three callbacks were accepted on a Running plugin, the last one a
\* block-metadata notification, and the channel has taken three pushes.
C19_Witness ==
    /\ inner = "Some"
    /\ call = [kind |-> "BlockMeta", startup |-> FALSE, pushed |-> TRUE]
    /\ result = Returned("Ok")
    /\ Len(pushed) = 3
    /\ chan.next_seq = 3

\* C20 (capability flags are static and do not gate the per-event path): while
\* the plugin is Running, account_data_notifications_enabled and
\* transaction_notifications_enabled return the enable_account_update and
\* enable_transaction_update of the configuration it was loaded with, and no
\* producer callback changes what they return; entry_notifications_enabled
\* returns true and account_data_snapshot_notifications_enabled false in every
\* state; and a non-startup account update within the size cap, and a
\* transaction, are pushed also when their flag is false.
Running == inner = "Some" /\ pc = "idle"

ProducerCallback ==
    \/ \E v \in AccountVersions, n \in DataLens, st \in BOOLEAN : update_account(v, n, st)
    \/ update_slot_status
    \/ \E v \in TransactionVersions : notify_transaction(v)
    \/ \E v \in EntryVersions : notify_entry(v)
    \/ \E v \in BlockVersions : notify_block_metadata(v)

C20_CapabilityFlags ==
    /\ [](Running =>
            \E file \in Configs :
                /\ limits = file.channel
                /\ account_data_notifications_enabled =
                        Bool(file.filters.enable_account_update)
                /\ transaction_notifications_enabled =
                        Bool(file.filters.enable_transaction_update))
    /\ [](entry_notifications_enabled = "true")
    /\ [](account_data_snapshot_notifications_enabled = "false")
    /\ [][(Running /\ ProducerCallback) =>
            /\ account_data_notifications_enabled' = account_data_notifications_enabled
            /\ transaction_notifications_enabled' = transaction_notifications_enabled]_vars
    /\ [][\A n \in DataLens :
            ( /\ Running /\ account_data_notifications_enabled = "false"
              /\ ~OverCap(n) /\ update_account("V0_0_3", n, FALSE) ) =>
                PushedOne("Account", n)]_vars
    /\ [][( /\ Running /\ transaction_notifications_enabled = "false"
            /\ notify_transaction("V0_0_3") ) => PushedOne("Transaction", 1)]_vars

\* On a plugin loaded with both flags false, a transaction has just been pushed
\* after an account update was.
C20_Witness ==
    /\ Running
    /\ account_data_notifications_enabled = "false"
    /\ transaction_notifications_enabled = "false"
    /\ call = [kind |-> "Transaction", startup |-> FALSE, pushed |-> TRUE]
    /\ Len(pushed) >= 2

====
